---------------------------- MODULE Spec2Model ----------------------------
(***************************************************************************)
(* Model of the Sarvam text-to-speech service                              *)
(* (server/services/tts_sarvam.js): the mu-law encoder, the format         *)
(* detector and the conversion pipeline with its ffmpeg fallback; of the   *)
(* voice list and voice preview of VOICE_WEBSOCKET_INTEGRATION.js; and of  *)
(* the call form CallInitiator.                                            *)
(*                                                                         *)
(* Nine specifications share the module:                                   *)
(*   SpecEnc  encodeMuLaw applied to every signed 16-bit sample            *)
(*   SpecDet  detectAudioFormat applied to every short byte buffer         *)
(*   Spec     one sarvamTTS / convertToUlaw call and its ffmpeg process    *)
(*   SpecLive the same call, with progress of the call's own steps         *)
(*   SpecPair two concurrent calls                                         *)
(*   SpecWav  the in-process wavefile block of convertToUlaw               *)
(*   SpecVoices  the voice list: the GET request and the WebSocket messages*)
(*   SpecPreview handleVoicePreview and its requests and Audio objects     *)
(*   SpecForm    startCall and the form of CallInitiator                   *)
(***************************************************************************)
EXTENDS Integers, Sequences, FiniteSets, TLC

VARIABLES
    sample,      \* SpecEnc: the int16 argument of encodeMuLaw
    ulaw,        \* SpecEnc: the returned byte, -1 before the call
    encPc,       \* SpecEnc: "ready" | "done"
    buffer,      \* SpecDet: the argument of detectAudioFormat
    detected,    \* SpecDet: the returned format, "none" before the call
    detPc,       \* SpecDet: "ready" | "done"
    wavefile,    \* Spec: what the wavefile library does with each buffer
    pc,          \* Spec: position of each sarvamTTS call
    format,      \* Spec: the declared format of each call (options.format)
    audioBuffer, \* Spec: the audio bytes the provider returned to each call
    actualFormat,\* Spec: detectAudioFormat(audioBuffer)
    inprocTried, \* Spec: the wavefile block of convertToUlaw was entered
    waveError,   \* Spec: the exception caught as waveError, <<>> if none
    spawnCalls,  \* Spec: number of spawn('ffmpeg', ...) calls of each call
    ffmpegArgs,  \* Spec: the argument list given to spawn
    proc,        \* Spec: the child process: "none"|"running"|"errored"|"closed"
    chunks,      \* Spec: the chunks array of the promise executor
    stderrOutput,\* Spec: the stderrOutput string, as a list of pieces
    procEvents,  \* Spec: the 'error' and 'close' events handled so far
    promise,     \* Spec: the promise convertToUlaw returned
    result,      \* Spec: the buffer sarvamTTS returned
    ttsError,    \* Spec: the message of the error sarvamTTS threw
    skipConversion, \* Spec: options.skipConversion of each call
    waveSource,  \* Spec: the wavefile call that loaded the samples, or "none"
    uncaught,    \* Spec: the uncaught exception that ended the process, or <<>>
    emitted,     \* Spec: the chunks each ffmpeg process wrote to its stdout, in order
    fetchCalls,  \* Spec: number of nodeFetch requests of each call
    apiKey,      \* Spec: process.env.SARVAM_API_KEY, "" when not set
    wavIn,       \* SpecWav: the WAV handed to the wavefile block: rate and channels
    wavRate,     \* SpecWav: wav.fmt.sampleRate
    wavData,     \* SpecWav: the samples held by the WaveFile object, per channel
    resampleCalls, \* SpecWav: number of wav.toSampleRate calls
    samples,     \* SpecWav: the local "samples"
    ulawBuffer,  \* SpecWav: the returned buffer, as a list of bytes
    wavPc,       \* SpecWav: position in the wavefile block
    voicesFromAPI, \* SpecVoices: the voice list of the page
    loadingVoicesFromAPI, \* SpecVoices: the loading flag
    voicesFetch, \* SpecVoices: the initial GET /api/voices: "idle"|"pending"|"done"
    snapshot,    \* SpecVoices: the voices the server puts in the answer to that GET
    wsLast,      \* SpecVoices: the last WebSocket message handled by ws.onmessage
    wsCount,     \* SpecVoices: number of WebSocket messages handled
    playingPreviewVoiceId, \* SpecPreview: the voice shown as playing, 0 for null
    previewAudio, \* SpecPreview: the Audio object kept in state, 0 for null
    previewReq,  \* SpecPreview: the preview requests: voice and state of each
    audio,       \* SpecPreview: the Audio object of each request
    clicks,      \* SpecPreview: number of handleVoicePreview calls
    user,        \* SpecForm: useAuth().user
    toNumber,    \* SpecForm: the "To Number" field
    selectedAgentId, \* SpecForm: the "Select Agent" field
    isCalling,   \* SpecForm: the isCalling state
    callStatus,  \* SpecForm: the status line, as its text pieces
    onMakeCall,  \* SpecForm: the arguments of every onMakeCall invocation
    callPc,      \* SpecForm: "idle", or "awaiting" inside await onMakeCall(...)
    starts       \* SpecForm: number of startCall invocations

encVars == <<sample, ulaw, encPc>>
detVars == <<buffer, detected, detPc>>
callVars == <<wavefile, pc, format, audioBuffer, actualFormat, inprocTried,
              waveError, spawnCalls, ffmpegArgs, proc, chunks, stderrOutput,
              procEvents, promise, result, ttsError, skipConversion,
              waveSource, uncaught, emitted, fetchCalls, apiKey>>
wavVars == <<wavIn, wavRate, wavData, resampleCalls, samples, ulawBuffer, wavPc>>
voiceVars == <<voicesFromAPI, loadingVoicesFromAPI, voicesFetch, snapshot, wsLast,
               wsCount>>
previewVars == <<playingPreviewVoiceId, previewAudio, previewReq, audio, clicks>>
formVars == <<user, toNumber, selectedAgentId, isCalling, callStatus, onMakeCall, callPc, starts>>
moreVars == <<wavVars, voiceVars, previewVars, formVars>>
vars == <<encVars, detVars, callVars, moreVars>>

(***************************************************************************)
(* 32-bit integer operators of JavaScript, on mathematical integers.       *)
(***************************************************************************)
Pow2(n) == 2 ^ n

\* x >> n for a value that fits 32 bits: arithmetic shift, rounds to -infinity
Shr(x, n) == x \div Pow2(n)

\* x << n for small non-negative values (no overflow in the ranges used)
Shl(x, n) == x * Pow2(n)

RECURSIVE AndBits(_, _, _)
AndBits(a, b, n) ==
    IF n = 0 THEN 0
    ELSE (IF a % 2 = 1 /\ b % 2 = 1 THEN 1 ELSE 0)
         + 2 * AndBits(a \div 2, b \div 2, n - 1)

RECURSIVE OrBits(_, _, _)
OrBits(a, b, n) ==
    IF n = 0 THEN 0
    ELSE (IF a % 2 = 1 \/ b % 2 = 1 THEN 1 ELSE 0)
         + 2 * OrBits(a \div 2, b \div 2, n - 1)

\* the low 16 bits of the two's complement image of x
Low16(x) == x % Pow2(16)

\* a & b for a mask b in 0 .. 65535: only the low 16 bits of a matter
BitAnd(a, b) == AndBits(Low16(a), b, 16)

\* a | b for operands in 0 .. 65535
BitOr(a, b) == OrBits(a, b, 16)

\* ~a
BitNot(a) == (0 - a) - 1

(***************************************************************************)
(* encodeMuLaw                                                             *)
(***************************************************************************)
Int16 == (0 - 32768) .. 32767

BIAS == 132
CLIP == 32635

\* sign = (sample >> 8) & 0x80
MuLawSign(s) == BitAnd(Shr(s, 8), 128)

\* a magnitude that is not clipped
MuLawBiased_NoClip(s) ==
    LET neg == IF MuLawSign(s) # 0 THEN 0 - s ELSE s
    IN  neg + BIAS

\* a magnitude taken without the negation of negative samples
MuLawBiased_NoNegate(s) ==
    LET clip == IF s > CLIP THEN CLIP ELSE s
    IN  clip + BIAS

\* the magnitude after "if (sign !== 0) sample = -sample", the clip and the bias
MuLawBiased(s) ==
    LET neg  == IF MuLawSign(s) # 0 THEN 0 - s ELSE s
        clip == IF neg > CLIP THEN CLIP ELSE neg
    IN  clip + BIAS

\* the explicit threshold chain, which overwrites the result of the loop
MuLawExponent(b) ==
    IF b > 32767 THEN 7
    ELSE IF b > 16383 THEN 6
    ELSE IF b > 8191 THEN 5
    ELSE IF b > 4095 THEN 4
    ELSE IF b > 2047 THEN 3
    ELSE IF b > 1023 THEN 2
    ELSE IF b > 511 THEN 1
    ELSE 0

encodeMuLaw(s) ==
    LET sign     == MuLawSign(s)
        b        == MuLawBiased(s)
        exponent == MuLawExponent(b)
        mantissa == BitAnd(Shr(b, exponent + 3), 15)
        ulawbyte == BitNot(BitOr(BitOr(sign, Shl(exponent, 4)), mantissa))
    IN  BitAnd(ulawbyte, 255)

InitEnc ==
    /\ sample \in Int16
    /\ ulaw = 0 - 1
    /\ encPc = "ready"

Encode ==
    /\ encPc = "ready"
    /\ ulaw' = encodeMuLaw(sample)
    /\ encPc' = "done"
    /\ UNCHANGED <<sample, detVars, callVars, moreVars>>

(***************************************************************************)
(* detectAudioFormat                                                       *)
(***************************************************************************)
MaxLen == 4

\* the bytes of the signatures, and bytes that miss each test by one bit
DetBytes == {0, 51, 68, 70, 73, 82, 192, 224, 255}

RECURSIVE SeqsUpTo(_, _)
SeqsUpTo(S, n) ==
    IF n = 0 THEN {<<>>}
    ELSE LET shorter == SeqsUpTo(S, n - 1)
         IN  shorter \cup {Append(q, b) : q \in {r \in shorter : Len(r) = n - 1}, b \in S}

\* buffer[i] of JavaScript, 0-based; -1 stands for undefined past the end
ByteAt(buf, i) == IF i < Len(buf) THEN buf[i + 1] ELSE 0 - 1

\* v & m for a buffer element: undefined converts to 0
ByteAnd(v, m) == IF v < 0 THEN 0 ELSE BitAnd(v, m)

\* detectAudioFormat without its length guard
detectAudioFormat_NoLengthGuard(buf) ==
    IF ByteAt(buf, 0) = 73 /\ ByteAt(buf, 1) = 68 /\ ByteAt(buf, 2) = 51
    THEN "mp3"
    ELSE IF ByteAt(buf, 0) = 255 /\ ByteAnd(ByteAt(buf, 1), 224) = 224
         THEN "mp3"
    ELSE IF /\ ByteAt(buf, 0) = 82 /\ ByteAt(buf, 1) = 73
            /\ ByteAt(buf, 2) = 70 /\ ByteAt(buf, 3) = 70
         THEN "wav"
    ELSE "s16le"

\* detectAudioFormat with the frame sync test "(buffer[1] & 0xE0) !== 0"
detectAudioFormat_LooseSync(buf) ==
    IF Len(buf) < 4 THEN "unknown"
    ELSE IF ByteAt(buf, 0) = 73 /\ ByteAt(buf, 1) = 68 /\ ByteAt(buf, 2) = 51
         THEN "mp3"
    ELSE IF ByteAt(buf, 0) = 255 /\ ByteAnd(ByteAt(buf, 1), 224) # 0
         THEN "mp3"
    ELSE IF /\ ByteAt(buf, 0) = 82 /\ ByteAt(buf, 1) = 73
            /\ ByteAt(buf, 2) = 70 /\ ByteAt(buf, 3) = 70
         THEN "wav"
    ELSE "s16le"

detectAudioFormat(buf) ==
    IF Len(buf) < 4 THEN "unknown"
    ELSE IF ByteAt(buf, 0) = 73 /\ ByteAt(buf, 1) = 68 /\ ByteAt(buf, 2) = 51
         THEN "mp3"
    ELSE IF ByteAt(buf, 0) = 255 /\ ByteAnd(ByteAt(buf, 1), 224) = 224
         THEN "mp3"
    ELSE IF /\ ByteAt(buf, 0) = 82 /\ ByteAt(buf, 1) = 73
            /\ ByteAt(buf, 2) = 70 /\ ByteAt(buf, 3) = 70
         THEN "wav"
    ELSE "s16le"

InitDet ==
    /\ buffer \in SeqsUpTo(DetBytes, MaxLen)
    /\ detected = "none"
    /\ detPc = "ready"

Detect ==
    /\ detPc = "ready"
    /\ detected' = detectAudioFormat(buffer)
    /\ detPc' = "done"
    /\ UNCHANGED <<buffer, encVars, callVars, moreVars>>

(***************************************************************************)
(* sarvamTTS and convertToUlaw                                             *)
(*                                                                         *)
(* Each call runs the synchronous stretches of the code as steps: the      *)
(* request, the continuation after the provider answered (detection and    *)
(* the skipConversion return), the wavefile block, the promise executor    *)
(* that spawns ffmpeg, the handlers of the child's events, and the         *)
(* continuation of sarvamTTS after "await convertToUlaw".                  *)
(***************************************************************************)
Calls == {1, 2}

MaxChunks == 2
MaxStderr == 1

\* provider answers: one buffer per detected format
ShortBuf == <<73, 68, 51>>
Mp3Buf   == <<255, 251, 0, 0>>
WavBuf   == <<82, 73, 70, 70, 0>>
RawBuf   == <<0, 82, 73, 70>>
SampleBuffers == {ShortBuf, Mp3Buf, WavBuf, RawBuf}

\* the buffers convertToUlaw hands to the wavefile library
InProcBuffers == {b \in SampleBuffers : detectAudioFormat(b) \in {"wav", "unknown"}}

\* the library is deterministic: per buffer, fromBuffer and the processing
\* after it succeed ("ok"), fromBuffer throws and the buffer is usable as raw
\* samples ("parse_throws"), or the processing throws ("process_throws").
\* What it does with a buffer is known from the first call that hands it
\* that buffer; until then the buffer is "untried".
WaveOutcomes == {"ok", "parse_throws", "process_throws"}

\* the outcomes the library can show for a buffer, given what is known
KnownOutcomes(lib, buf) ==
    IF buf \notin DOMAIN lib THEN {"parse_throws"}
    ELSE IF lib[buf] = "untried" THEN WaveOutcomes
    ELSE {lib[buf]}

Learn(lib, buf, o) == IF buf \in DOMAIN lib THEN [lib EXCEPT ![buf] = o] ELSE lib

\* options.format / SARVAM_TTS_FORMAT; "" is an absent value
FormatValues == {"", "mp3"}

\* const format = options.format || process.env.SARVAM_TTS_FORMAT || "wav"
DeclaredFormat(opt, env) == IF opt # "" THEN opt ELSE IF env # "" THEN env ELSE "wav"

ExitCodes == {0, 1}
\* what ffmpeg writes to stderr: a line of the mp3 decoder, whose context
\* address holds the digits 401
StderrTexts == {"[mp3float @ 0x55d840113c80] Header missing"}

\* if (sourceFormat === 'wav' || sourceFormat === 'unknown')
UsesWavefile_NotRaw(sourceFormat) == sourceFormat # "s16le"

UsesWavefile_WavOnly(sourceFormat) == sourceFormat = "wav"

UsesWavefile(sourceFormat) == sourceFormat \in {"wav", "unknown"}

\* how the wavefile block obtains its samples: wav.fromBuffer for 'wav'; for
\* 'unknown' wav.fromBuffer and, when that throws, wav.fromScratch(1, 24000,
\* '16', audioBuffer); "none" when the load threw
WaveLoad(sourceFormat, lib) ==
    IF lib # "parse_throws" THEN "fromBuffer"
    ELSE IF sourceFormat = "unknown" THEN "fromScratch"
    ELSE "none"

\* a wavefile block that falls back to raw samples for 'wav' too
InProcessOutcome_FallbackForWav(sourceFormat, lib) ==
    IF lib \in {"ok", "parse_throws"} THEN "ok" ELSE "throws"

\* the wavefile block of convertToUlaw: "ok" when it returns a buffer
InProcessOutcome(sourceFormat, lib) ==
    IF sourceFormat = "wav"
    THEN IF lib = "ok" THEN "ok" ELSE "throws"
    ELSE \* 'unknown': fromBuffer, and on its exception fromScratch(1, 24000, '16')
         IF lib \in {"ok", "parse_throws"} THEN "ok" ELSE "throws"

\* the buffer the manual encode loop returns
InProcessResult(buf) == [by |-> "wavefile", data |-> <<<<"encodeMuLaw", buf>>>>]

\* the argument list of spawn('ffmpeg', ffmpegArgs)
FfmpegArgs(sourceFormat) ==
    IF sourceFormat = "s16le"
    THEN <<"-f", "s16le", "-ar", "24000", "-ac", "1", "-i", "pipe:0",
           "-ar", "8000", "-ac", "1", "-acodec", "pcm_mulaw", "-f", "mulaw",
           "-loglevel", "error", "pipe:1">>
    ELSE <<"-i", "pipe:0",
           "-ar", "8000", "-ac", "1", "-acodec", "pcm_mulaw", "-f", "mulaw",
           "-af", "volume=2.0",
           "-loglevel", "error", "pipe:1">>

\* the k-th piece ffmpeg writes to stdout: a function of its arguments and input
StdoutChunk(args, input, k) == <<"ffmpeg", args, input, k>>

\* one chunks array shared by all calls
ChunkList_Shared(c) == 1

\* const chunks = [] inside the promise executor: every call has its own array
ChunkList(c) == c

\* Buffer.concat(chunks)
FfmpegResult(cs) == [by |-> "ffmpeg", data |-> cs]

\* error messages, as lists of their pieces
ExitMessage(code, stderr) == <<"ffmpeg exited with code", ToString(code)>> \o stderr
ProcessErrorMessage == <<"ffmpeg process error:", "spawn ffmpeg ENOENT">>
SpawnThrowMessage == <<"spawn ENOMEM">>
WaveErrorMessage == <<"wavefile error">>
StdinErrorMessage == <<"write EPIPE">>

\* catch (error) { throw new Error(`Audio format conversion failed: ...`) }
WrapError(msg) == <<"Audio format conversion failed:">> \o msg

\* "return new Promise(...)" inside the try block is not awaited there, so a
\* rejection of that promise passes the catch block by
ReturnIsAwaited == FALSE

\* the rejection the caller of convertToUlaw observes
ConvRejection(msg) == IF ReturnIsAwaited THEN WrapError(msg) ELSE msg

Pending == [state |-> "pending"]
NoPromise == [state |-> "none"]
Resolved(v) == [state |-> "resolved", value |-> v]
Rejected(msg) == [state |-> "rejected", error |-> ConvRejection(msg)]

\* a promise that every resolve / reject call settles anew
Settle_LastWins(p, outcome) == outcome

\* resolve / reject of a promise settle it only once
Settle(p, outcome) == IF p.state = "pending" THEN outcome ELSE p

\* the 'close' handler that resolves whatever the exit code
CloseOutcome_IgnoresCode(code, cs, stderr) == Resolved(FfmpegResult(cs))

\* the 'close' handler: resolve on code 0, reject otherwise
CloseOutcome(code, cs, stderr) ==
    IF code = 0
    THEN Resolved(FfmpegResult(cs))
    ELSE Rejected(ExitMessage(code, stderr))

\* a source format taken from the declared format when one names mp3
SourceFormat_TrustsDeclared(buf, declared) ==
    IF declared = "mp3" THEN "mp3" ELSE detectAudioFormat(buf)

\* const actualFormat = detectAudioFormat(audioBuffer), handed to convertToUlaw;
\* the declared format is only logged next to it
SourceFormat(buf, declared) == detectAudioFormat(buf)

CloseEvent(code) == [ev |-> "close", code |-> code]
ErrorEvent == [ev |-> "error", code |-> 0 - 1]

\* process.env.SARVAM_API_KEY: not set, or a key
ApiKeyValues == {"", "sk_test"}

\* a key check that lets every value pass
KeyConfigured_Always(key) == TRUE

\* if (!apiKey) throw ...
KeyConfigured(key) == key # ""

MissingKeyMessage == <<"SARVAM_API_KEY not configured in environment variables">>

\* what the provider request of sarvamTTS can end in
FetchFailures == {"http_401", "http_429", "http_500", "network", "no_audio"}

FetchErrorMessage(f) ==
    CASE f = "http_401" -> <<"Sarvam API error:", "401", "Unauthorized">>
      [] f = "http_429" -> <<"Sarvam API error:", "429", "Too Many Requests">>
      [] f = "http_500" -> <<"Sarvam API error:", "500", "Internal Server Error">>
      [] f = "network"  -> <<"request to https://api.sarvam.ai/text-to-speech failed",
                             "getaddrinfo ENOTFOUND api.sarvam.ai">>
      [] OTHER          -> <<"No audio data in Sarvam response">>

\* the markers error.message.includes(...) looks for, per piece of a message
MarkersIn(piece) ==
    CASE piece = "401" -> {"401"}
      [] piece = "429" -> {"429"}
      [] piece = "getaddrinfo ENOTFOUND api.sarvam.ai" -> {"ENOTFOUND"}
      [] piece = "SARVAM_API_KEY not configured in environment variables"
            -> {"SARVAM_API_KEY"}
      [] piece = "[mp3float @ 0x55d840113c80] Header missing" -> {"401"}
      [] OTHER -> {}

Includes(msg, marker) == \E i \in 1 .. Len(msg) : marker \in MarkersIn(msg[i])

\* the catch block of sarvamTTS
TtsCatch(msg) ==
    IF Includes(msg, "SARVAM_API_KEY")
    THEN <<"Sarvam API key is missing. Please set SARVAM_API_KEY in your environment variables.">>
    ELSE IF Includes(msg, "ENOTFOUND") \/ Includes(msg, "ETIMEDOUT")
    THEN <<"Network error: Unable to reach Sarvam API. Please check your internet connection.">>
    ELSE IF Includes(msg, "401")
    THEN <<"Authentication failed: Invalid Sarvam API key.">>
    ELSE IF Includes(msg, "429")
    THEN <<"Rate limit exceeded: Too many requests to Sarvam API.">>
    ELSE msg

\* a skipConversion option that is never honoured
ReturnsProviderAudio_Never(skip) == FALSE

\* if (options.skipConversion) { ... return audioBuffer; }
ReturnsProviderAudio(skip) == skip

\* the decoded provider audio, returned as it is
ProviderResult(buf) == [by |-> "provider", data |-> buf]

NoBuffer == <<>>
NoResult == [by |-> "none", data |-> <<>>]

\* an uncaught exception ends the Node process: no handler runs after it
Alive == uncaught = <<>>

\* no call has started
CallsIdle ==
    /\ format = [c \in Calls |-> ""]
    /\ audioBuffer = [c \in Calls |-> NoBuffer]
    /\ actualFormat = [c \in Calls |-> "none"]
    /\ inprocTried = [c \in Calls |-> FALSE]
    /\ waveError = [c \in Calls |-> <<>>]
    /\ spawnCalls = [c \in Calls |-> 0]
    /\ ffmpegArgs = [c \in Calls |-> <<>>]
    /\ proc = [c \in Calls |-> "none"]
    /\ chunks = [c \in Calls |-> <<>>]
    /\ stderrOutput = [c \in Calls |-> <<>>]
    /\ procEvents = [c \in Calls |-> <<>>]
    /\ promise = [c \in Calls |-> NoPromise]
    /\ result = [c \in Calls |-> NoResult]
    /\ ttsError = [c \in Calls |-> <<>>]
    /\ fetchCalls = [c \in Calls |-> 0]
    /\ emitted = [c \in Calls |-> <<>>]
    /\ uncaught = <<>>
    /\ waveSource = [c \in Calls |-> "none"]
    /\ skipConversion = [c \in Calls |-> FALSE]

\* the calls of Active are made, the others never are
InitCalls(Active) ==
    /\ apiKey \in ApiKeyValues
    /\ wavefile = [b \in InProcBuffers |-> "untried"]
    /\ pc = [c \in Calls |-> IF c \in Active THEN "start" ELSE "off"]
    /\ CallsIdle

\* sarvamTTS up to "await nodeFetch(...)": the options of the call are fixed,
\* the declared format is read and logged
Request(c) ==
    /\ Alive
    /\ pc[c] = "start"
    /\ KeyConfigured(apiKey)
    /\ fetchCalls' = [fetchCalls EXCEPT ![c] = @ + 1]
    /\ \E opt \in FormatValues, env \in FormatValues :
          format' = [format EXCEPT ![c] = DeclaredFormat(opt, env)]
    /\ \E skip \in BOOLEAN :
          skipConversion' = [skipConversion EXCEPT ![c] = skip]
    /\ pc' = [pc EXCEPT ![c] = "fetching"]
    /\ UNCHANGED <<encVars, detVars, apiKey, moreVars, emitted, uncaught, waveSource, wavefile, audioBuffer, actualFormat, inprocTried, waveError,
                   spawnCalls, ffmpegArgs, proc, chunks, stderrOutput, promise,
                   result, ttsError, procEvents>>

\* sarvamTTS without SARVAM_API_KEY: the throw of line 22 lands in the catch
\* block of the function
KeyMissing(c) ==
    /\ Alive
    /\ pc[c] = "start"
    /\ ~KeyConfigured(apiKey)
    /\ ttsError' = [ttsError EXCEPT ![c] = TtsCatch(MissingKeyMessage)]
    /\ pc' = [pc EXCEPT ![c] = "failed"]
    /\ UNCHANGED <<encVars, detVars, moreVars, apiKey, fetchCalls, emitted, uncaught,
                   waveSource, skipConversion, wavefile, format, audioBuffer,
                   actualFormat, inprocTried, waveError, spawnCalls, ffmpegArgs, proc,
                   chunks, stderrOutput, promise, result, procEvents>>

\* the request failed, the status was not ok, or the answer held no audio
FetchFailed(c) ==
    /\ Alive
    /\ pc[c] = "fetching"
    /\ \E f \in FetchFailures :
          ttsError' = [ttsError EXCEPT ![c] = TtsCatch(FetchErrorMessage(f))]
    /\ pc' = [pc EXCEPT ![c] = "failed"]
    /\ UNCHANGED <<encVars, detVars, apiKey, fetchCalls, moreVars, emitted, uncaught, waveSource, skipConversion, wavefile, format, audioBuffer, actualFormat, inprocTried,
                   waveError, spawnCalls, ffmpegArgs, proc, chunks, stderrOutput,
                   promise, result, procEvents>>

\* the provider answered with audio: decode, detect, and return the provider's
\* bytes when options.skipConversion is set
FetchDone(c) ==
    /\ Alive
    /\ pc[c] = "fetching"
    /\ \E buf \in SampleBuffers :
          /\ audioBuffer' = [audioBuffer EXCEPT ![c] = buf]
          /\ actualFormat' = [actualFormat EXCEPT ![c] = SourceFormat(buf, format[c])]
          /\ IF ReturnsProviderAudio(skipConversion[c])
             THEN /\ result' = [result EXCEPT ![c] = ProviderResult(buf)]
                  /\ pc' = [pc EXCEPT ![c] = "returned"]
             ELSE /\ pc' = [pc EXCEPT ![c] = "convert"]
                  /\ UNCHANGED result
    /\ UNCHANGED <<encVars, detVars, apiKey, fetchCalls, moreVars, emitted, uncaught, waveSource, skipConversion, wavefile, format, inprocTried, waveError, spawnCalls,
                   ffmpegArgs, proc, chunks, stderrOutput, promise, ttsError, procEvents>>

\* convertToUlaw, OPTION 1: the wavefile block, entered for 'wav' and 'unknown'
ConvertInProcess(c) ==
    /\ Alive
    /\ pc[c] = "convert"
    /\ IF UsesWavefile(actualFormat[c])
       THEN /\ inprocTried' = [inprocTried EXCEPT ![c] = TRUE]
            /\ \E lib \in KnownOutcomes(wavefile, audioBuffer[c]) :
                  /\ wavefile' = Learn(wavefile, audioBuffer[c], lib)
                  /\ waveSource' = [waveSource EXCEPT
                                       ![c] = WaveLoad(actualFormat[c], lib)]
                  /\ IF InProcessOutcome(actualFormat[c], lib) = "ok"
                     THEN /\ promise' = [promise EXCEPT
                                           ![c] = Resolved(InProcessResult(audioBuffer[c]))]
                          /\ pc' = [pc EXCEPT ![c] = "awaiting"]
                          /\ UNCHANGED waveError
                     ELSE /\ waveError' = [waveError EXCEPT ![c] = WaveErrorMessage]
                          /\ pc' = [pc EXCEPT ![c] = "spawn"]
                          /\ UNCHANGED promise
       ELSE /\ pc' = [pc EXCEPT ![c] = "spawn"]
            /\ UNCHANGED <<wavefile, waveSource, inprocTried, waveError, promise>>
    /\ UNCHANGED <<encVars, detVars, apiKey, fetchCalls, moreVars, emitted, uncaught, skipConversion, format, audioBuffer, actualFormat, spawnCalls,
                   ffmpegArgs, proc, chunks, stderrOutput, procEvents, result,
                   ttsError>>

\* convertToUlaw, OPTION 2: the promise executor builds the arguments, spawns
\* ffmpeg, registers the handlers and writes the input to stdin; an exception
\* thrown by spawn inside the executor rejects the promise
SpawnFfmpeg(c) ==
    /\ Alive
    /\ pc[c] = "spawn"
    /\ ffmpegArgs' = [ffmpegArgs EXCEPT ![c] = FfmpegArgs(actualFormat[c])]
    /\ spawnCalls' = [spawnCalls EXCEPT ![c] = @ + 1]
    /\ \E started \in BOOLEAN :
          IF started
          THEN /\ proc' = [proc EXCEPT ![c] = "running"]
               /\ promise' = [promise EXCEPT ![c] = Pending]
          ELSE /\ promise' = [promise EXCEPT ![c] = Rejected(SpawnThrowMessage)]
               /\ UNCHANGED proc
    /\ pc' = [pc EXCEPT ![c] = "awaiting"]
    /\ UNCHANGED <<encVars, detVars, apiKey, fetchCalls, moreVars, emitted, uncaught, waveSource, skipConversion, wavefile, format, audioBuffer, actualFormat, inprocTried,
                   waveError, chunks, stderrOutput, result, ttsError, procEvents>>

\* ffmpeg.stdout.on('data', (chunk) => chunks.push(chunk)): the child of call
\* c writes its next chunk and the handler of that child appends it
StdoutData(c) ==
    /\ Alive
    /\ proc[c] = "running"
    /\ Len(emitted[c]) < MaxChunks
    /\ LET chunk == StdoutChunk(ffmpegArgs[c], audioBuffer[c], Len(emitted[c]) + 1)
       IN  /\ emitted' = [emitted EXCEPT ![c] = Append(@, chunk)]
           /\ chunks' = [chunks EXCEPT ![ChunkList(c)] = Append(@, chunk)]
    /\ UNCHANGED <<encVars, detVars, apiKey, fetchCalls, moreVars, uncaught, waveSource, skipConversion, wavefile, pc, format, audioBuffer, actualFormat, inprocTried,
                   waveError, spawnCalls, ffmpegArgs, proc, stderrOutput, promise,
                   result, ttsError, procEvents>>

\* ffmpeg.stderr.on('data', (data) => stderrOutput += data.toString())
StderrData(c) ==
    /\ Alive
    /\ proc[c] = "running"
    /\ Len(stderrOutput[c]) < MaxStderr
    /\ \E text \in StderrTexts :
          stderrOutput' = [stderrOutput EXCEPT ![c] = Append(@, text)]
    /\ UNCHANGED <<encVars, detVars, apiKey, fetchCalls, moreVars, emitted, uncaught, waveSource, skipConversion, wavefile, pc, format, audioBuffer, actualFormat, inprocTried,
                   waveError, spawnCalls, ffmpegArgs, proc, chunks, promise,
                   result, ttsError, procEvents>>

\* ffmpeg.on('close', (code) => ...). The child exits with code 0 only once
\* it has written its whole output, and never after an 'error'.
ProcessClose(c) ==
    /\ Alive
    /\ proc[c] \in {"running", "errored"}
    /\ \E code \in ExitCodes :
          /\ code = 0 => proc[c] = "running" /\ Len(emitted[c]) = MaxChunks
          /\ promise' = [promise EXCEPT ![c] =
                Settle(@, CloseOutcome(code, chunks[ChunkList(c)], stderrOutput[c]))]
          /\ procEvents' = [procEvents EXCEPT ![c] = Append(@, CloseEvent(code))]
    /\ proc' = [proc EXCEPT ![c] = "closed"]
    /\ UNCHANGED <<encVars, detVars, apiKey, fetchCalls, moreVars, emitted, uncaught, waveSource, skipConversion, wavefile, pc, format, audioBuffer, actualFormat, inprocTried,
                   waveError, spawnCalls, ffmpegArgs, chunks, stderrOutput,
                   result, ttsError>>

\* ffmpeg.on('error', (error) => ...)
ProcessError(c) ==
    /\ Alive
    /\ proc[c] = "running"
    /\ promise' = [promise EXCEPT ![c] = Settle(@, Rejected(ProcessErrorMessage))]
    /\ procEvents' = [procEvents EXCEPT ![c] = Append(@, ErrorEvent)]
    /\ proc' = [proc EXCEPT ![c] = "errored"]
    /\ UNCHANGED <<encVars, detVars, apiKey, fetchCalls, moreVars, emitted, uncaught, waveSource, skipConversion, wavefile, pc, format, audioBuffer, actualFormat, inprocTried,
                   waveError, spawnCalls, ffmpegArgs, chunks, stderrOutput,
                   result, ttsError>>

\* ffmpeg.stdin.write(audioBuffer) on a child that stopped reading: the stdin
\* stream emits 'error' (EPIPE), and no listener is registered on it, so the
\* event is thrown as an uncaught exception
StdinError(c) ==
    /\ Alive
    /\ proc[c] = "running"
    /\ uncaught' = StdinErrorMessage
    /\ UNCHANGED <<encVars, detVars, apiKey, fetchCalls, moreVars, emitted, waveSource, skipConversion, wavefile, pc, format,
                   audioBuffer, actualFormat, inprocTried, waveError, spawnCalls,
                   ffmpegArgs, proc, chunks, stderrOutput, procEvents, promise,
                   result, ttsError>>

\* sarvamTTS after "await convertToUlaw(...)": return the buffer, or run the
\* catch block on the rejection
TtsResume(c) ==
    /\ Alive
    /\ pc[c] = "awaiting"
    /\ promise[c].state \in {"resolved", "rejected"}
    /\ IF promise[c].state = "resolved"
       THEN /\ result' = [result EXCEPT ![c] = promise[c].value]
            /\ pc' = [pc EXCEPT ![c] = "returned"]
            /\ UNCHANGED ttsError
       ELSE /\ ttsError' = [ttsError EXCEPT ![c] = TtsCatch(promise[c].error)]
            /\ pc' = [pc EXCEPT ![c] = "failed"]
            /\ UNCHANGED result
    /\ UNCHANGED <<encVars, detVars, apiKey, fetchCalls, moreVars, emitted, uncaught, waveSource, skipConversion, wavefile, format, audioBuffer, actualFormat, inprocTried,
                   waveError, spawnCalls, ffmpegArgs, proc, chunks, stderrOutput,
                   promise, procEvents>>

(***************************************************************************)
(* The wavefile block of convertToUlaw, sample by sample                   *)
(*                                                                         *)
(* The WaveFile object is the environment: fromBuffer yields the format    *)
(* and the samples of the container, toSampleRate replaces the samples by  *)
(* resampled ones, and getSamples(false, Int16Array) returns one array for *)
(* a mono file and an array of per-channel arrays otherwise.               *)
(***************************************************************************)
MaxSamples == 2

\* 16-bit sample values
SampleVals == {0 - 1, 0, 1000}

\* values a resampled sample may take
ResampledVals == {0, 1000}

SampleRates == {8000, 24000}
ChannelCounts == {1, 2}

\* every file of n channels with the same number of samples in each channel
WavFiles(values) ==
    UNION {[1 .. n -> [1 .. len -> values]] : n \in ChannelCounts, len \in 0 .. MaxSamples}

\* a resampling that is run whatever the rate
NeedsResample_Always(rate) == TRUE

\* if (fmt.sampleRate !== 8000)
NeedsResample(rate) == rate # 8000

\* wav.getSamples(false, Int16Array): de-interleaved when there are channels
GetSamples(data) ==
    IF Len(data) > 1
    THEN [arrayOfArrays |-> TRUE, value |-> data]
    ELSE [arrayOfArrays |-> FALSE, value |-> data[1]]

\* a reduction to mono that takes the last channel
FirstChannel_Last(got) ==
    IF got.arrayOfArrays /\ Len(got.value) > 0
    THEN got.value[Len(got.value)]
    ELSE got.value

\* if (Array.isArray(samples) && samples.length > 0 && ...) samples = samples[0]
FirstChannel(got) ==
    IF got.arrayOfArrays /\ Len(got.value) > 0
    THEN got.value[1]
    ELSE got.value

\* the manual encoding loop: ulawBuffer[i] = encodeMuLaw(samples[i])
EncodeLoop(ss) == [i \in 1 .. Len(ss) |-> encodeMuLaw(ss[i])]

ParkWav ==
    /\ wavIn = [sampleRate |-> 0, channels |-> <<>>]
    /\ wavRate = 0
    /\ wavData = <<>>
    /\ resampleCalls = 0
    /\ samples = <<>>
    /\ ulawBuffer = <<>>
    /\ wavPc = "off"

InitWav ==
    /\ \E rate \in SampleRates, channels \in WavFiles(SampleVals) :
          wavIn = [sampleRate |-> rate, channels |-> channels]
    /\ wavRate = 0
    /\ wavData = <<>>
    /\ resampleCalls = 0
    /\ samples = <<>>
    /\ ulawBuffer = <<>>
    /\ wavPc = "load"

\* wav.fromBuffer(audioBuffer); const fmt = wav.fmt
WavLoad ==
    /\ wavPc = "load"
    /\ wavRate' = wavIn.sampleRate
    /\ wavData' = wavIn.channels
    /\ wavPc' = "rate"
    /\ UNCHANGED <<callVars, encVars, detVars, voiceVars, previewVars, formVars, wavIn, resampleCalls, samples, ulawBuffer>>

\* wav.toSampleRate(8000): the library replaces the samples of every channel
WavResample ==
    /\ wavPc = "rate"
    /\ NeedsResample(wavRate)
    /\ resampleCalls' = resampleCalls + 1
    /\ wavRate' = 8000
    /\ \E out \in WavFiles(ResampledVals) :
          /\ Len(out) = Len(wavData)
          /\ wavData' = out
    /\ wavPc' = "extract"
    /\ UNCHANGED <<callVars, encVars, detVars, voiceVars, previewVars, formVars, wavIn, samples, ulawBuffer>>

\* the rate is 8000 already: toSampleRate is not called
WavKeepRate ==
    /\ wavPc = "rate"
    /\ ~NeedsResample(wavRate)
    /\ wavPc' = "extract"
    /\ UNCHANGED <<callVars, encVars, detVars, voiceVars, previewVars, formVars, wavIn, wavRate, wavData, resampleCalls,
                   samples, ulawBuffer>>

\* let samples = wav.getSamples(false, Int16Array), reduced to the first channel
WavExtract ==
    /\ wavPc = "extract"
    /\ samples' = FirstChannel(GetSamples(wavData))
    /\ wavPc' = "encode"
    /\ UNCHANGED <<callVars, encVars, detVars, voiceVars, previewVars, formVars, wavIn, wavRate, wavData, resampleCalls,
                   ulawBuffer>>

\* Buffer.alloc(samples.length), the encoding loop, return ulawBuffer
WavEncode ==
    /\ wavPc = "encode"
    /\ ulawBuffer' = EncodeLoop(samples)
    /\ wavPc' = "done"
    /\ UNCHANGED <<callVars, encVars, detVars, voiceVars, previewVars, formVars, wavIn, wavRate, wavData, resampleCalls,
                   samples>>

(***************************************************************************)
(* The voice list of AgentDetailPage (VOICE_WEBSOCKET_INTEGRATION.js)      *)
(*                                                                         *)
(* The page fetches the list once when it mounts and opens a WebSocket;    *)
(* the answer to the fetch and the messages of the socket arrive in any    *)
(* order.                                                                  *)
(***************************************************************************)
MaxMessages == 3

Voice(p, i) == [provider |-> p, id |-> i]

Providers == {"elevenlabs", "sarvam"}
VoiceIds == {1, 2}

\* voice lists a payload or an answer carries; voice ids repeat across providers
VoiceLists ==
    {<<>>,
     <<Voice("elevenlabs", 1)>>,
     <<Voice("sarvam", 1), Voice("sarvam", 2)>>,
     <<Voice("elevenlabs", 2), Voice("sarvam", 1)>>}

NoMessage == [type |-> "none"]

\* prevVoices.filter(v => v.provider !== provider) followed by the payload
ApplyUpdate(prevVoices, provider, voices) ==
    LET Other(v) == v.provider # provider
    IN  SelectSeq(prevVoices, Other) \o voices

\* a removal that looks at the voice id only
ApplyRemoved_ByIdOnly(prevVoices, provider, voiceIds) ==
    LET Kept(v) == v.id \notin voiceIds
    IN  SelectSeq(prevVoices, Kept)

\* prevVoices.filter(v => !(v.provider === provider && voiceIds.includes(v.id)))
ApplyRemoved(prevVoices, provider, voiceIds) ==
    LET Kept(v) == ~(v.provider = provider /\ v.id \in voiceIds)
    IN  SelectSeq(prevVoices, Kept)

ParkVoices ==
    /\ voicesFromAPI = <<>>
    /\ loadingVoicesFromAPI = FALSE
    /\ voicesFetch = "off"
    /\ snapshot = <<>>
    /\ wsLast = NoMessage
    /\ wsCount = 0

\* useState initial values; the server's answer is fixed by its state
InitVoices ==
    /\ voicesFromAPI = <<>>
    /\ loadingVoicesFromAPI = FALSE
    /\ voicesFetch = "idle"
    /\ snapshot \in VoiceLists
    /\ wsLast = NoMessage
    /\ wsCount = 0

\* the two mount effects: setLoadingVoicesFromAPI(true), the fetch is sent,
\* the WebSocket is opened
VoicesMount ==
    /\ voicesFetch = "idle"
    /\ loadingVoicesFromAPI' = TRUE
    /\ voicesFetch' = "pending"
    /\ UNCHANGED <<callVars, encVars, detVars, wavVars, previewVars, formVars, voicesFromAPI, snapshot, wsLast,
                   wsCount>>

\* the answer arrived, ok, with success and voices: setVoicesFromAPI(data.voices)
VoicesFetchOk ==
    /\ voicesFetch = "pending"
    /\ voicesFromAPI' = snapshot
    /\ loadingVoicesFromAPI' = FALSE
    /\ voicesFetch' = "done"
    /\ UNCHANGED <<callVars, encVars, detVars, wavVars, previewVars, formVars, snapshot, wsLast, wsCount>>

\* the fetch threw, the status was not ok, or the answer held no voices
VoicesFetchFailed ==
    /\ voicesFetch = "pending"
    /\ loadingVoicesFromAPI' = FALSE
    /\ voicesFetch' = "done"
    /\ UNCHANGED <<callVars, encVars, detVars, wavVars, previewVars, formVars, voicesFromAPI, snapshot, wsLast,
                   wsCount>>

\* ws.onmessage is called with msg: the socket is open and the bound not reached
Handles(msg) ==
    /\ voicesFetch \in {"pending", "done"}
    /\ wsCount < MaxMessages
    /\ wsLast' = msg
    /\ wsCount' = wsCount + 1
    /\ UNCHANGED <<callVars, encVars, detVars, wavVars, previewVars, formVars, loadingVoicesFromAPI, voicesFetch,
                   snapshot>>

\* case 'voices.initialize'
WsInitialize ==
    \E voices \in VoiceLists :
        /\ Handles([type |-> "voices.initialize", voices |-> voices])
        /\ voicesFromAPI' = voices

\* case 'voices.update'
WsUpdate ==
    \E provider \in Providers, voices \in VoiceLists :
        /\ Handles([type |-> "voices.update", provider |-> provider, voices |-> voices])
        /\ voicesFromAPI' = ApplyUpdate(voicesFromAPI, provider, voices)

\* case 'voices.removed'
WsRemoved ==
    \E provider \in Providers, voiceIds \in SUBSET VoiceIds :
        /\ Handles([type |-> "voices.removed", provider |-> provider,
                    voiceIds |-> voiceIds])
        /\ voicesFromAPI' = ApplyRemoved(voicesFromAPI, provider, voiceIds)

\* JSON.parse throws: the catch block logs
WsUnparsable ==
    /\ Handles([type |-> "unparsable"])
    /\ UNCHANGED voicesFromAPI

\* a message of a type the switch has no case for
WsOtherType ==
    /\ Handles([type |-> "other"])
    /\ UNCHANGED voicesFromAPI

(***************************************************************************)
(* handleVoicePreview (VOICE_WEBSOCKET_INTEGRATION.js)                     *)
(*                                                                         *)
(* Every call that goes on to the preview request is one entry of          *)
(* previewReq; the continuation after "await fetch" creates the Audio      *)
(* object of that entry.                                                   *)
(***************************************************************************)
MaxClicks == 3

PreviewVoices == {1, 2}
Requests == 1 .. MaxClicks

NoRequest == [voice |-> 0, state |-> "unused"]

ParkPreview ==
    /\ playingPreviewVoiceId = 0
    /\ previewAudio = 0
    /\ previewReq = <<>>
    /\ audio = <<>>
    /\ clicks = 0 - 1

InitPreview ==
    /\ playingPreviewVoiceId = 0
    /\ previewAudio = 0
    /\ previewReq = [r \in Requests |-> NoRequest]
    /\ audio = [r \in Requests |-> "none"]
    /\ clicks = 0

\* if (previewAudio) { previewAudio.pause(); setPreviewAudio(null); }
PauseCurrent(audios, current) ==
    IF current # 0 /\ audios[current] = "playing"
    THEN [audios EXCEPT ![current] = "paused"]
    ELSE audios

\* handleVoicePreview(voice) up to "await fetch(...)"
PreviewClick ==
    /\ clicks \in 0 .. MaxClicks - 1
    /\ \E voice \in PreviewVoices :
          /\ audio' = PauseCurrent(audio, previewAudio)
          /\ previewAudio' = 0
          /\ IF playingPreviewVoiceId = voice
             THEN /\ playingPreviewVoiceId' = 0
                  /\ UNCHANGED previewReq
             ELSE /\ playingPreviewVoiceId' = voice
                  /\ previewReq' = [previewReq EXCEPT ![clicks + 1] =
                                       [voice |-> voice, state |-> "pending"]]
    /\ clicks' = clicks + 1
    /\ UNCHANGED <<callVars, encVars, detVars, wavVars, voiceVars, formVars>>

\* the answer says success: new Audio(...), audio.play(), setPreviewAudio(audio)
PreviewAnswerOk ==
    \E r \in Requests :
        /\ clicks >= 0
        /\ previewReq[r].state = "pending"
        /\ previewReq' = [previewReq EXCEPT ![r].state = "done"]
        /\ audio' = [audio EXCEPT ![r] = "playing"]
        /\ previewAudio' = r
        /\ UNCHANGED <<callVars, encVars, detVars, wavVars, voiceVars, formVars,
                       playingPreviewVoiceId, clicks>>

\* the fetch threw or the answer says no success: alert, setPlayingPreviewVoiceId(null)
PreviewAnswerFailed ==
    \E r \in Requests :
        /\ clicks >= 0
        /\ previewReq[r].state = "pending"
        /\ previewReq' = [previewReq EXCEPT ![r].state = "done"]
        /\ playingPreviewVoiceId' = 0
        /\ UNCHANGED <<callVars, encVars, detVars, wavVars, voiceVars, formVars, previewAudio,
                       audio, clicks>>

\* audio.onended
AudioEnded ==
    \E r \in Requests :
        /\ clicks >= 0
        /\ audio[r] = "playing"
        /\ audio' = [audio EXCEPT ![r] = "ended"]
        /\ playingPreviewVoiceId' = 0
        /\ previewAudio' = 0
        /\ UNCHANGED <<callVars, encVars, detVars, wavVars, voiceVars, formVars, previewReq, clicks>>

\* audio.onerror
AudioError ==
    \E r \in Requests :
        /\ clicks >= 0
        /\ audio[r] = "playing"
        /\ audio' = [audio EXCEPT ![r] = "error"]
        /\ playingPreviewVoiceId' = 0
        /\ previewAudio' = 0
        /\ UNCHANGED <<callVars, encVars, detVars, wavVars, voiceVars, formVars, previewReq, clicks>>

(***************************************************************************)
(* CallInitiator.startCall (src/unnamed/part_001)                          *)
(*                                                                         *)
(* Strings are sequences of one-character strings, so that the two         *)
(* regular expressions and trim() are computed character by character.     *)
(***************************************************************************)
MaxStarts == 2

RECURSIVE Rep(_, _)
Rep(ch, n) == IF n = 0 THEN <<>> ELSE <<ch>> \o Rep(ch, n - 1)

Digits == {"0", "1", "2", "3", "4", "5", "6", "7", "8", "9"}
HexDigits == Digits \cup {"a", "b", "c", "d", "e", "f", "A", "B", "C", "D", "E", "F"}
Whitespace == {" ", "\t"}

\* /^[0-9a-f]{8}-[0-9a-f]{4}-[0-9a-f]{4}-[0-9a-f]{4}-[0-9a-f]{12}$/i.test(s)
TestUuid(s) ==
    /\ Len(s) = 36
    /\ \A i \in 1 .. 36 :
          IF i \in {9, 14, 19, 24} THEN s[i] = "-" ELSE s[i] \in HexDigits

\* the digits matched by \d{1,14} from position i on, then $
RECURSIVE DigitsToEnd(_, _, _)
DigitsToEnd(s, i, most) ==
    IF i > Len(s) THEN TRUE
    ELSE IF most = 0 \/ s[i] \notin Digits THEN FALSE
    ELSE DigitsToEnd(s, i + 1, most - 1)

\* /^\+?[1-9]\d{1,14}$/.test(s)
TestE164_NoUpperBound(s) ==
    LET from == IF s # <<>> /\ s[1] = "+" THEN 2 ELSE 1
    IN  /\ Len(s) >= from + 1
        /\ s[from] \in Digits \ {"0"}
        /\ DigitsToEnd(s, from + 1, Len(s))

TestE164(s) ==
    LET from == IF s # <<>> /\ s[1] = "+" THEN 2 ELSE 1
    IN  /\ Len(s) >= from + 1
        /\ s[from] \in Digits \ {"0"}
        /\ DigitsToEnd(s, from + 1, 14)

\* s.trim()
RECURSIVE Trim(_)
Trim(s) ==
    IF s = <<>> THEN s
    ELSE IF s[1] \in Whitespace THEN Trim(Tail(s))
    ELSE IF s[Len(s)] \in Whitespace THEN Trim(SubSeq(s, 1, Len(s) - 1))
    ELSE s

UuidLower == Rep("0", 8) \o <<"-">> \o Rep("a", 4) \o <<"-">> \o Rep("4", 4)
             \o <<"-">> \o Rep("f", 4) \o <<"-">> \o Rep("9", 12)
UuidUpper == Rep("A", 8) \o <<"-">> \o Rep("F", 4) \o <<"-">> \o Rep("4", 4)
             \o <<"-">> \o Rep("b", 4) \o <<"-">> \o Rep("0", 12)

\* the ids useAuth().user can carry
UserIds == { UuidLower, UuidUpper,
             SubSeq(UuidLower, 1, 35),
             [UuidLower EXCEPT ![9] = "0"],
             <<>> }

NoUser == [loggedIn |-> FALSE, id |-> <<>>]
Users == {NoUser} \cup {[loggedIn |-> TRUE, id |-> u] : u \in UserIds}

\* what can be typed into the "To Number" field
ToNumbers == { <<>>, <<" ">>, <<"7">>, <<"+", "7", "0">>, <<"0", "7", "0">>,
               <<" ", "7", "0">>, <<"7", "x">>,
               <<"7">> \o Rep("0", 14), <<"7">> \o Rep("0", 15) }

\* the agent.id values of the agents prop
AgentIds == { UuidLower, UuidUpper,
              UuidLower \o <<"0">>,
              [UuidLower EXCEPT ![1] = "g"] }

\* the values of the select: the placeholder option and every agent.id
AgentOptions == {<<>>} \cup AgentIds

\* the "from" number handed to onMakeCall: phoneNumber.id || phoneNumber
FromNumber == <<"+", "1", "5", "5", "5", "0", "1", "0", "0">>

\* error.message of a rejected onMakeCall, as its text pieces
ErrorMessages == { <<"Twilio configuration error", ": invalid account">>,
                   <<"Connection error", ": socket closed">>,
                   <<"Validation error", ": bad agent">>,
                   <<"Call limit reached">> }

\* the message shown for error.message
UserMessage(message) ==
    IF message[1] = "Twilio configuration error"
    THEN <<"Twilio configuration error. Please check your Twilio credentials in the settings.">>
    ELSE IF message[1] = "Connection error"
    THEN <<"Connection error. Please check your internet connection and try again.">>
    ELSE IF message[1] = "Validation error"
    THEN <<"Validation error. Please check that all fields are correctly filled.">>
    ELSE message

\* the status set by the first check of startCall that fails, <<>> if none does
FailedCheck(u, to, agent) ==
    IF ~u.loggedIn THEN <<"You must be logged in to make calls">>
    ELSE IF ~TestUuid(u.id) THEN <<"Invalid user ID. Please log in again.">>
    ELSE IF Trim(to) = <<>> THEN <<"Please enter a phone number to call">>
    ELSE IF ~TestE164(to)
    THEN <<"Please enter a valid phone number (e.g., +1234567890)">>
    ELSE IF agent = <<>> THEN <<"Please select an agent">>
    ELSE IF ~TestUuid(agent) THEN <<"Please select a valid agent">>
    ELSE <<>>

ParkForm ==
    /\ user = NoUser
    /\ toNumber = <<>>
    /\ selectedAgentId = <<>>
    /\ isCalling = FALSE
    /\ callStatus = <<>>
    /\ onMakeCall = <<>>
    /\ callPc = "parked"
    /\ starts = 0

InitForm ==
    /\ user \in Users
    /\ toNumber = <<>>
    /\ selectedAgentId = <<>>
    /\ isCalling = FALSE
    /\ callStatus = <<>>
    /\ onMakeCall = <<>>
    /\ callPc = "idle"
    /\ starts = 0

FormFrame == UNCHANGED <<callVars, encVars, detVars, wavVars, voiceVars, previewVars>>

\* onChange of the "To Number" input
TypeToNumber ==
    /\ callPc \in {"idle", "awaiting"}
    /\ \E value \in ToNumbers :
          /\ value # toNumber
          /\ toNumber' = value
    /\ callStatus' = <<>>
    /\ FormFrame
    /\ UNCHANGED <<user, selectedAgentId, isCalling, onMakeCall, callPc, starts>>

\* onChange of the "Select Agent" select
SelectAgent ==
    /\ callPc \in {"idle", "awaiting"}
    /\ \E value \in AgentOptions :
          /\ value # selectedAgentId
          /\ selectedAgentId' = value
    /\ callStatus' = <<>>
    /\ FormFrame
    /\ UNCHANGED <<user, toNumber, isCalling, onMakeCall, callPc, starts>>

\* startCall when one of its checks fails: the status is set and it returns
StartCallRefused ==
    /\ callPc = "idle"
    /\ ~isCalling
    /\ starts < MaxStarts
    /\ FailedCheck(user, toNumber, selectedAgentId) # <<>>
    /\ callStatus' = FailedCheck(user, toNumber, selectedAgentId)
    /\ starts' = starts + 1
    /\ FormFrame
    /\ UNCHANGED <<user, toNumber, selectedAgentId, isCalling, onMakeCall, callPc>>

\* startCall when every check passes, up to "await onMakeCall(...)"
StartCallMade ==
    /\ callPc = "idle"
    /\ ~isCalling
    /\ starts < MaxStarts
    /\ FailedCheck(user, toNumber, selectedAgentId) = <<>>
    /\ isCalling' = TRUE
    /\ callStatus' = <<"Initiating call...">>
    /\ onMakeCall' = Append(onMakeCall, [from |-> FromNumber, to |-> toNumber,
                                         agentId |-> selectedAgentId])
    /\ callPc' = "awaiting"
    /\ starts' = starts + 1
    /\ FormFrame
    /\ UNCHANGED <<user, toNumber, selectedAgentId>>

\* onMakeCall resolved: the form is reset, finally sets isCalling false
CallResolved ==
    /\ callPc = "awaiting"
    /\ callStatus' = <<"Call initiated successfully!">>
    /\ toNumber' = <<>>
    /\ selectedAgentId' = <<>>
    /\ isCalling' = FALSE
    /\ callPc' = "idle"
    /\ FormFrame
    /\ UNCHANGED <<user, onMakeCall, starts>>

\* onMakeCall rejected with an Error: catch sets the status, finally sets isCalling false
CallRejected ==
    /\ callPc = "awaiting"
    /\ \E message \in ErrorMessages :
          callStatus' = <<"Failed to initiate call: ">> \o UserMessage(message)
    /\ isCalling' = FALSE
    /\ callPc' = "idle"
    /\ FormFrame
    /\ UNCHANGED <<user, toNumber, selectedAgentId, onMakeCall, starts>>

\* onMakeCall rejected with a value that has no message: error.message.includes
\* throws inside catch, finally still sets isCalling false
CallRejectedNoMessage ==
    /\ callPc = "awaiting"
    /\ isCalling' = FALSE
    /\ callPc' = "idle"
    /\ FormFrame
    /\ UNCHANGED <<user, toNumber, selectedAgentId, callStatus, onMakeCall, starts>>

(***************************************************************************)
(* The specifications                                                      *)
(***************************************************************************)
ParkEnc == sample = 0 /\ ulaw = 0 - 1 /\ encPc = "off"
ParkDet == buffer = <<>> /\ detected = "none" /\ detPc = "off"
ParkCalls ==
    /\ apiKey = ""
    /\ wavefile = [b \in InProcBuffers |-> "untried"]
    /\ pc = [c \in Calls |-> "off"]
    /\ CallsIdle

ParkMore == ParkWav /\ ParkVoices /\ ParkPreview /\ ParkForm

Init == ParkEnc /\ ParkDet /\ InitCalls({1}) /\ ParkMore

Next ==
    \E c \in Calls :
        \/ KeyMissing(c)
        \/ Request(c)
        \/ FetchFailed(c)
        \/ FetchDone(c)
        \/ ConvertInProcess(c)
        \/ SpawnFfmpeg(c)
        \/ StdoutData(c)
        \/ StderrData(c)
        \/ ProcessClose(c)
        \/ ProcessError(c)
        \/ StdinError(c)
        \/ TtsResume(c)

Spec == Init /\ [][Next]_vars

\* two concurrent calls
PairInit == ParkEnc /\ ParkDet /\ InitCalls(Calls) /\ ParkMore
SpecPair == PairInit /\ [][Next]_vars

\* The synchronous stretches of a call run once they can: the body of
\* convertToUlaw follows the detection, the promise executor follows the
\* wavefile block, and the continuation of "await convertToUlaw" runs once
\* the promise is settled. Nothing is assumed of the provider or of ffmpeg:
\* the child may never exit and never fail.
CallsProgress ==
    \A c \in Calls :
        /\ WF_vars(ConvertInProcess(c))
        /\ WF_vars(SpawnFfmpeg(c))
        /\ WF_vars(TtsResume(c))

SpecLive == Init /\ [][Next]_vars /\ CallsProgress

EncInit == InitEnc /\ ParkDet /\ ParkCalls /\ ParkMore
EncNext == Encode
SpecEnc == EncInit /\ [][EncNext]_vars

DetInit == ParkEnc /\ InitDet /\ ParkCalls /\ ParkMore
DetNext == Detect
SpecDet == DetInit /\ [][DetNext]_vars

WavInit == ParkEnc /\ ParkDet /\ ParkCalls /\ InitWav /\ ParkVoices /\ ParkPreview /\ ParkForm
VoicesInit == ParkEnc /\ ParkDet /\ ParkCalls /\ ParkWav /\ InitVoices /\ ParkPreview /\ ParkForm
VoicesNext ==
    \/ VoicesMount
    \/ VoicesFetchOk
    \/ VoicesFetchFailed
    \/ WsInitialize
    \/ WsUpdate
    \/ WsRemoved
    \/ WsUnparsable
    \/ WsOtherType
SpecVoices == VoicesInit /\ [][VoicesNext]_vars

PreviewInit ==
    ParkEnc /\ ParkDet /\ ParkCalls /\ ParkWav /\ ParkVoices /\ InitPreview /\ ParkForm
PreviewNext ==
    \/ PreviewClick
    \/ PreviewAnswerOk
    \/ PreviewAnswerFailed
    \/ AudioEnded
    \/ AudioError
SpecPreview == PreviewInit /\ [][PreviewNext]_vars

FormInit ==
    ParkEnc /\ ParkDet /\ ParkCalls /\ ParkWav /\ ParkVoices /\ ParkPreview /\ InitForm
FormNext ==
    \/ TypeToNumber
    \/ SelectAgent
    \/ StartCallRefused
    \/ StartCallMade
    \/ CallResolved
    \/ CallRejected
    \/ CallRejectedNoMessage
SpecForm == FormInit /\ [][FormNext]_vars

WavNext == WavLoad \/ WavResample \/ WavKeepRate \/ WavExtract \/ WavEncode
SpecWav == WavInit /\ [][WavNext]_vars

(***************************************************************************)
(* Properties of encodeMuLaw (SpecEnc)                                     *)
(***************************************************************************)
\* position of the most significant set bit of a positive value
RECURSIVE MsbPos(_)
MsbPos(v) == IF v < 2 THEN 0 ELSE 1 + MsbPos(v \div 2)

\* the ITU-T G.711 mu-law encoder: sign, clip 32635, bias 132, segment from
\* the most significant set bit of the biased magnitude, 4-bit mantissa, inversion
G711Encode(x) ==
    LET sign    == IF x < 0 THEN 128 ELSE 0
        mag     == IF x < 0 THEN 0 - x ELSE x
        biased  == (IF mag > 32635 THEN 32635 ELSE mag) + 132
        segment == MsbPos(biased) - 7
        mant    == (biased \div Pow2(segment + 3)) % 16
    IN  255 - (sign + 16 * segment + mant)

\* C1: for every int16 sample, encodeMuLaw returns the byte of the reference
\* G.711 mu-law encoder
C1_MatchesG711 == encPc = "done" => ulaw = G711Encode(sample)

\* a ^ b on the low n bits of two non-negative values
RECURSIVE XorBits(_, _, _)
XorBits(a, b, n) ==
    IF n = 0 THEN 0
    ELSE (IF a % 2 # b % 2 THEN 1 ELSE 0) + 2 * XorBits(a \div 2, b \div 2, n - 1)

\* C18: for every x in 1..32767 the bytes of x and of -x differ in the sign
\* bit only (their XOR is 0x80), and -32768 encodes like -32635
C18_SignSymmetry ==
    encPc = "done" =>
        /\ sample \in 1 .. 32767 =>
              XorBits(ulaw, encodeMuLaw(0 - sample), 8) = 128
        /\ sample \in (0 - 32767) .. (0 - 1) =>
              XorBits(ulaw, encodeMuLaw(0 - sample), 8) = 128
        /\ sample = 0 - 32768 => ulaw = encodeMuLaw(0 - 32635)

\* the clip level 32635 encoded, with its mirror image one sign bit away
C18_Witness ==
    /\ encPc = "done" /\ sample = 32635 /\ ulaw = 144
    /\ encodeMuLaw(0 - 32635) = 16

\* C25: for every int16 sample the biased magnitude lies in 132..32767, so
\* the "> 0x7FFF" branch is not taken: the exponent is in 0..6, never 7, and
\* the returned byte is in 0..255
C25_ExponentBelowSeven ==
    encPc = "done" =>
        /\ MuLawBiased(sample) \in 132 .. 32767
        /\ MuLawExponent(MuLawBiased(sample)) \in 0 .. 6
        /\ ulaw \in 0 .. 255

\* the largest sample: clipped to 32635, biased magnitude 32767, exponent 6
C25_Witness ==
    /\ encPc = "done" /\ sample = 32767
    /\ MuLawBiased(sample) = 32767
    /\ MuLawExponent(MuLawBiased(sample)) = 6

\* the ITU-T G.711 mu-law decoder: the inverse table, as a formula
G711Decode(byte) ==
    LET u    == 255 - byte
        e    == (u % 128) \div 16
        m    == u % 16
        mag  == (8 * m + 132) * Pow2(e) - 132
    IN  IF u >= 128 THEN 0 - mag ELSE mag

\* the sample the encoder quantizes: x clipped to +-32635
Clipped(x) ==
    IF x > 32635 THEN 32635 ELSE IF x < 0 - 32635 THEN 0 - 32635 ELSE x

\* half the quantization step of the G.711 segment x falls in
HalfStep(x) ==
    LET mag == IF x < 0 THEN 0 - x ELSE x
        biased == (IF mag > 32635 THEN 32635 ELSE mag) + 132
    IN  Pow2(MsbPos(biased) - 7 + 2)

Abs(v) == IF v < 0 THEN 0 - v ELSE v

\* C19: for every int16 sample, the G.711 decoding of the byte encodeMuLaw
\* returns lies within half a quantization step of the clipped sample
C19_RoundTripWithinHalfStep ==
    encPc = "done" =>
        Abs(G711Decode(ulaw) - Clipped(sample)) <= HalfStep(sample)

(***************************************************************************)
(* Properties of detectAudioFormat (SpecDet)                               *)
(***************************************************************************)
HasPrefix(buf, sig) == Len(buf) >= Len(sig) /\ SubSeq(buf, 1, Len(sig)) = sig

RiffSig == <<82, 73, 70, 70>>
Id3Sig == <<73, 68, 51>>

\* 0xFF followed by a byte whose top three bits are set
HasFrameSync(buf) == Len(buf) >= 2 /\ buf[1] = 255 /\ buf[2] >= 224

HasMp3Prefix(buf) == HasPrefix(buf, Id3Sig) \/ HasFrameSync(buf)

\* C2 as stated: classification by content alone, an mp3 prefix yields mp3
\* even in a buffer of 2 or 3 bytes
C2_ByContentAnyLength ==
    detPc = "done" =>
        /\ HasPrefix(buffer, RiffSig) => detected = "wav"
        /\ HasMp3Prefix(buffer) => detected = "mp3"
        /\ (Len(buffer) >= 4 /\ ~HasPrefix(buffer, RiffSig) /\ ~HasMp3Prefix(buffer))
              => detected = "s16le"

\* C2 amended: in a buffer of at least 4 bytes a RIFF prefix yields wav, an
\* ID3 or frame sync prefix yields mp3, anything else s16le; a buffer of 2 or
\* 3 bytes that carries an mp3 prefix yields unknown
C2_ByContentFromFourBytes ==
    detPc = "done" =>
        /\ HasPrefix(buffer, RiffSig) => detected = "wav"
        /\ (Len(buffer) >= 4 /\ HasMp3Prefix(buffer)) => detected = "mp3"
        /\ (Len(buffer) < 4 /\ HasMp3Prefix(buffer)) => detected = "unknown"
        /\ (Len(buffer) >= 4 /\ ~HasPrefix(buffer, RiffSig) /\ ~HasMp3Prefix(buffer))
              => detected = "s16le"

\* a 4-byte buffer with a frame sync whose second byte is exactly 0xE0
C2_Witness ==
    detPc = "done" /\ Len(buffer) = 4 /\ buffer[1] = 255 /\ buffer[2] = 224
        /\ detected = "mp3"

\* C3: every buffer is classified as one of the four formats, and every
\* buffer shorter than 4 bytes as unknown
C3_TotalAndShortUnknown ==
    detPc = "done" =>
        /\ detected \in {"mp3", "wav", "s16le", "unknown"}
        /\ Len(buffer) < 4 => detected = "unknown"

\* the 3-byte buffer 'ID3' is classified unknown
C3_Witness ==
    detPc = "done" /\ buffer = Id3Sig /\ detected = "unknown"

(***************************************************************************)
(* Properties of convertToUlaw (Spec)                                      *)
(***************************************************************************)
\* convertToUlaw has run up to the promise it returns
Converted(c) == promise[c].state # "none"

\* C4: for a buffer detected as mp3 the wavefile block is never entered,
\* ffmpeg is spawned on every conversion, and only ffmpeg produces the result
C4_Mp3AlwaysExternal ==
    \A c \in Calls :
        actualFormat[c] = "mp3" =>
            /\ ~inprocTried[c]
            /\ Converted(c) => spawnCalls[c] = 1
            /\ promise[c].state = "resolved" => promise[c].value.by = "ffmpeg"
            /\ result[c].by \in {"none", "provider", "ffmpeg"}

\* an mp3 buffer converted by ffmpeg and returned
C4_Witness ==
    \E c \in Calls :
        /\ actualFormat[c] = "mp3" /\ pc[c] = "returned"
        /\ result[c] = FfmpegResult(chunks[c]) /\ Len(chunks[c]) > 0

\* C5: for a buffer detected as wav or unknown the wavefile block runs first;
\* ffmpeg is spawned only after that block has thrown, and when the block
\* succeeded ffmpeg is not spawned and the block's buffer is the outcome
C5_InProcessFirst ==
    \A c \in Calls :
        actualFormat[c] \in {"wav", "unknown"} =>
            /\ (pc[c] = "spawn" \/ Converted(c)) => inprocTried[c]
            /\ spawnCalls[c] > 0 => inprocTried[c] /\ waveError[c] # <<>>
            /\ (inprocTried[c] /\ waveError[c] = <<>>) =>
                  /\ spawnCalls[c] = 0 /\ proc[c] = "none"
                  /\ promise[c] = Resolved(InProcessResult(audioBuffer[c]))
                  /\ result[c] \in {NoResult, InProcessResult(audioBuffer[c])}

\* an ffmpeg process runs after the wavefile block threw on an unknown buffer
C5_Witness ==
    \E c \in Calls :
        /\ actualFormat[c] = "unknown" /\ waveError[c] # <<>> /\ proc[c] = "running"

\* the options of the argument list that follow the input "pipe:0"
OutputOptions(args) ==
    LET at == CHOOSE i \in 1 .. Len(args) : args[i] = "pipe:0"
    IN  SubSeq(args, at + 1, Len(args))

HasOption(opts, name, value) ==
    \E i \in 1 .. Len(opts) - 1 : opts[i] = name /\ opts[i + 1] = value

\* C6: every ffmpeg invocation asks for 8000 Hz, one channel, mu-law, and
\* the 2x gain
C6_TargetParametersAndGain ==
    \A c \in Calls :
        spawnCalls[c] > 0 =>
            LET opts == OutputOptions(ffmpegArgs[c])
            IN  /\ HasOption(opts, "-ar", "8000")
                /\ HasOption(opts, "-ac", "1")
                /\ HasOption(opts, "-acodec", "pcm_mulaw")
                /\ HasOption(opts, "-af", "volume=2.0")

\* C7: every rejection of convertToUlaw carries the message prefix
\* "Audio format conversion failed:"
C7_FailuresWrapped ==
    \A c \in Calls :
        promise[c].state = "rejected" =>
            HasPrefix(promise[c].error, <<"Audio format conversion failed:">>)

\* the first 'error' or 'close' event of the child, if any
FirstEvent(c) == procEvents[c][1]

FfmpegFailedFirst(c) ==
    /\ procEvents[c] # <<>>
    /\ FirstEvent(c).ev = "error" \/ FirstEvent(c).code # 0

\* C8: the call resolves only with the buffer of a wavefile block that did
\* not throw or with the output of an ffmpeg that closed with code 0; when
\* ffmpeg fails first the call is rejected and no buffer is ever returned
C8_FailureFailsCall ==
    \A c \in Calls :
        /\ promise[c].state = "resolved" =>
              \/ /\ promise[c].value.by = "wavefile"
                 /\ inprocTried[c] /\ waveError[c] = <<>>
              \/ /\ promise[c].value.by = "ffmpeg"
                 /\ procEvents[c] # <<>>
                 /\ FirstEvent(c) = CloseEvent(0)
        /\ FfmpegFailedFirst(c) =>
              /\ promise[c].state = "rejected"
              /\ result[c] = NoResult

\* ffmpeg wrote output, then closed with a non-zero code, and the call failed
C8_Witness ==
    \E c \in Calls :
        /\ Len(chunks[c]) > 0 /\ procEvents[c] = <<CloseEvent(1)>>
        /\ pc[c] = "failed"

\* msg holds the pieces of cause, in order
Carries(msg, cause) ==
    \E i \in 1 .. Len(msg) :
        i + Len(cause) - 1 <= Len(msg) /\ SubSeq(msg, i, i + Len(cause) - 1) = cause

\* C9: when the wavefile block threw and the ffmpeg fallback failed too, the
\* error of the call carries the wavefile cause next to the ffmpeg cause
C9_BothCausesSurfaced ==
    \A c \in Calls :
        (waveError[c] # <<>> /\ promise[c].state = "rejected") =>
            Carries(promise[c].error, waveError[c])

\* C11: when options.skipConversion is set and the provider returned audio,
\* sarvamTTS returns the decoded provider buffer unmodified, convertToUlaw is
\* not called (no wavefile block, no promise) and no ffmpeg process is spawned
C11_SkipBypassesConversion ==
    \A c \in Calls :
        (skipConversion[c] /\ audioBuffer[c] # NoBuffer) =>
            /\ pc[c] = "returned"
            /\ result[c] = ProviderResult(audioBuffer[c])
            /\ ttsError[c] = <<>>
            /\ ~inprocTried[c] /\ waveError[c] = <<>>
            /\ promise[c] = NoPromise
            /\ spawnCalls[c] = 0 /\ proc[c] = "none" /\ chunks[c] = <<>>

\* a call with skipConversion returned the provider's mp3 bytes
C11_Witness ==
    \E c \in Calls :
        /\ skipConversion[c] /\ pc[c] = "returned"
        /\ result[c] = ProviderResult(Mp3Buf)

\* the wavefile library could not parse the buffer of call c as a container
ParseFailed(c) ==
    /\ inprocTried[c]
    /\ wavefile[audioBuffer[c]] = "parse_throws"

\* C12 as stated: a buffer detected as wav whose container cannot be parsed
\* is loaded as raw 24000 Hz mono 16-bit samples and converted in-process
C12_WavParseFailureLoadsRaw ==
    \A c \in Calls :
        (actualFormat[c] = "wav" /\ ParseFailed(c)) =>
            /\ waveSource[c] = "fromScratch"
            /\ waveError[c] = <<>>
            /\ spawnCalls[c] = 0

\* C12 amended: the raw-sample load happens for a buffer detected as unknown
\* whose container cannot be parsed, and the conversion then ends in-process;
\* for a buffer detected as wav the parse failure leaves the wavefile block
\* with no samples loaded and the conversion goes on to ffmpeg
C12_RawLoadOnlyForUnknown ==
    \A c \in Calls :
        ParseFailed(c) =>
            /\ actualFormat[c] = "unknown" =>
                  /\ waveSource[c] = "fromScratch"
                  /\ waveError[c] = <<>> /\ spawnCalls[c] = 0
                  /\ promise[c] = Resolved(InProcessResult(audioBuffer[c]))
            /\ actualFormat[c] = "wav" =>
                  /\ waveSource[c] = "none"
                  /\ waveError[c] # <<>>
                  /\ pc[c] = "spawn" \/ spawnCalls[c] = 1
                  /\ promise[c].state = "resolved" => promise[c].value.by = "ffmpeg"

\* a RIFF buffer the library could not parse is being converted by ffmpeg
C12_Witness ==
    \E c \in Calls :
        /\ actualFormat[c] = "wav" /\ ParseFailed(c)
        /\ waveSource[c] = "none" /\ proc[c] = "running"

\* C14: every failure of ffmpeg rejects the call: a spawn that throws, an
\* 'error' event, a non-zero exit code, and an error on the child's stdin;
\* none escapes as an uncaught exception
C14_EveryEngineFailureRejects ==
    /\ uncaught = <<>>
    /\ \A c \in Calls :
          /\ FfmpegFailedFirst(c) => promise[c].state = "rejected"
          /\ (spawnCalls[c] > 0 /\ proc[c] = "none") => promise[c].state = "rejected"

\* C24: without SARVAM_API_KEY a call fails with the message "Sarvam API key
\* is missing. Please set SARVAM_API_KEY in your environment variables." and
\* has sent no request, detected no format and spawned no process
C24_MissingKeyFailsFirst ==
    \A c \in Calls :
        (apiKey = "" /\ pc[c] \notin {"off", "start"}) =>
            /\ pc[c] = "failed"
            /\ ttsError[c] = <<"Sarvam API key is missing. Please set SARVAM_API_KEY in your environment variables.">>
            /\ fetchCalls[c] = 0
            /\ audioBuffer[c] = NoBuffer /\ actualFormat[c] = "none"
            /\ promise[c] = NoPromise /\ ~inprocTried[c]
            /\ spawnCalls[c] = 0 /\ proc[c] = "none"

\* a call failed for the missing key
C24_Witness ==
    \E c \in Calls :
        /\ apiKey = "" /\ pc[c] = "failed" /\ fetchCalls[c] = 0
        /\ ttsError[c] # <<>>

\* the messages sarvamTTS gives to failures of the provider request
ProviderSideMessages ==
    {<<"Sarvam API key is missing. Please set SARVAM_API_KEY in your environment variables.">>,
     <<"Network error: Unable to reach Sarvam API. Please check your internet connection.">>,
     <<"Authentication failed: Invalid Sarvam API key.">>,
     <<"Rate limit exceeded: Too many requests to Sarvam API.">>}

\* a message that speaks of the conversion
ConversionSide(msg) ==
    \/ HasPrefix(msg, <<"Audio format conversion failed:">>)
    \/ HasPrefix(msg, <<"ffmpeg exited with code">>)
    \/ HasPrefix(msg, <<"ffmpeg process error:">>)

\* C17: a call that failed in convertToUlaw is never reported with one of the
\* provider-side messages, whatever ffmpeg wrote to stderr, and a call that
\* failed at the provider request is never reported as a conversion failure
C17_FailuresDistinguishable ==
    \A c \in Calls :
        pc[c] = "failed" =>
            /\ promise[c].state = "rejected" => ttsError[c] \notin ProviderSideMessages
            /\ promise[c].state = "none" => ~ConversionSide(ttsError[c])

(***************************************************************************)
(* Properties of two calls (SpecPair)                                      *)
(***************************************************************************)
\* the call went through convertToUlaw (skipConversion was not set)
ThroughConversion(c) == pc[c] \in {"convert", "spawn", "awaiting"} \/ Converted(c)

\* C10: two calls that received the same audio bytes agree on the detected
\* format, on the path taken, on the ffmpeg arguments and on the returned
\* buffer, whatever their declared formats
C10_DeclaredFormatIrrelevant ==
    \A a \in Calls, b \in Calls :
        (audioBuffer[a] # NoBuffer /\ audioBuffer[a] = audioBuffer[b]) =>
            /\ actualFormat[a] = actualFormat[b]
            /\ (Converted(a) /\ Converted(b)) =>
                  /\ inprocTried[a] = inprocTried[b]
                  /\ spawnCalls[a] = spawnCalls[b]
                  /\ waveError[a] = waveError[b]
            /\ (spawnCalls[a] > 0 /\ spawnCalls[b] > 0) =>
                  ffmpegArgs[a] = ffmpegArgs[b]
            /\ (/\ ThroughConversion(a) /\ ThroughConversion(b)
                /\ pc[a] = "returned" /\ pc[b] = "returned") =>
                  result[a] = result[b]

\* two calls with different declared formats returned converted audio of
\* the same RIFF buffer through ffmpeg
C10_Witness ==
    \E a \in Calls, b \in Calls :
        /\ format[a] = "mp3" /\ format[b] = "wav"
        /\ audioBuffer[a] = WavBuf /\ audioBuffer[b] = WavBuf
        /\ pc[a] = "returned" /\ pc[b] = "returned"
        /\ result[a].by = "ffmpeg" /\ result[b].by = "ffmpeg"

\* the elements of a sequence
Range(seq) == {seq[i] : i \in 1 .. Len(seq)}

\* C15: in every interleaving of two calls each call spawns one process of
\* its own and collects that process's chunks in its own array; the buffer a
\* call resolves with is the sequence of chunks its own process wrote, in the
\* order written, and holds no chunk of the other call's process
C15_OwnChunksOnly ==
    \A c \in Calls :
        /\ spawnCalls[c] <= 1
        /\ chunks[c] = emitted[c]
        /\ (promise[c].state = "resolved" /\ promise[c].value.by = "ffmpeg") =>
              /\ promise[c].value.data = emitted[c]
              /\ \A d \in Calls \ {c} :
                    audioBuffer[d] # audioBuffer[c] =>
                        Range(promise[c].value.data) \cap Range(emitted[d]) = {}
        /\ result[c].by = "ffmpeg" => result[c].data = emitted[c]

\* both calls resolved with ffmpeg output, of different inputs
C15_Witness ==
    /\ audioBuffer[1] = Mp3Buf /\ audioBuffer[2] = RawBuf
    /\ \A c \in Calls :
          /\ promise[c].state = "resolved" /\ promise[c].value.by = "ffmpeg"
          /\ Len(promise[c].value.data) = MaxChunks

(***************************************************************************)
(* Properties of the wavefile block (SpecWav)                              *)
(***************************************************************************)
\* C21: for a WAV whose rate is 8000 Hz already, toSampleRate is not called
\* and the returned buffer holds encodeMuLaw of every sample of the first
\* channel of the input, in the order of the input
C21_NoResampleAtTargetRate ==
    (wavPc = "done" /\ wavIn.sampleRate = 8000) =>
        /\ resampleCalls = 0
        /\ Len(ulawBuffer) = Len(wavIn.channels[1])
        /\ \A i \in 1 .. Len(ulawBuffer) :
              ulawBuffer[i] = encodeMuLaw(wavIn.channels[1][i])

\* an 8000 Hz mono file of the samples 1000, -1 was encoded
C21_Witness ==
    /\ wavPc = "done" /\ wavIn.sampleRate = 8000
    /\ wavIn.channels = <<<<1000, 0 - 1>>>>
    /\ ulawBuffer = <<encodeMuLaw(1000), encodeMuLaw(0 - 1)>>

\* C23: with more than one channel the output is encodeMuLaw of the samples
\* of the first channel, one byte per sample of that channel, whatever the
\* other channels hold
C23_FirstChannelOnly ==
    (wavPc = "done" /\ Len(wavData) > 1) =>
        /\ Len(ulawBuffer) = Len(wavData[1])
        /\ \A i \in 1 .. Len(ulawBuffer) : ulawBuffer[i] = encodeMuLaw(wavData[1][i])

\* a two-channel file whose channels differ was encoded
C23_Witness ==
    /\ wavPc = "done" /\ Len(wavData) = 2
    /\ wavData[1] = <<1000, 0>> /\ wavData[2] = <<0, 1000>>
    /\ ulawBuffer = <<encodeMuLaw(1000), encodeMuLaw(0)>>

(***************************************************************************)
(* Properties of the voice list (SpecVoices)                               *)
(***************************************************************************)
\* the voices of a list that satisfy / do not satisfy "provider p, id in ids"
Named(list, p, ids) ==
    LET Hit(v) == v.provider = p /\ v.id \in ids
    IN  SelectSeq(list, Hit)

NotNamed(list, p, ids) ==
    LET Miss(v) == ~(v.provider = p /\ v.id \in ids)
    IN  SelectSeq(list, Miss)

\* C27: a 'voices.update' for provider P leaves the list as the previous
\* voices of the other providers, in their order, followed by the payload; a
\* 'voices.removed' takes out the voices of provider P whose id is listed and
\* nothing else; a message that cannot be parsed changes nothing
C27_OnlyNamedProviderAffected ==
    [][wsCount' = wsCount + 1 =>
          LET m == wsLast'
              n == Len(NotNamed(voicesFromAPI, m.provider, VoiceIds))
          IN  /\ m.type = "voices.update" =>
                    /\ Len(voicesFromAPI') = n + Len(m.voices)
                    /\ SubSeq(voicesFromAPI', 1, n)
                          = NotNamed(voicesFromAPI, m.provider, VoiceIds)
                    /\ SubSeq(voicesFromAPI', n + 1, Len(voicesFromAPI')) = m.voices
              /\ m.type = "voices.removed" =>
                    /\ Named(voicesFromAPI', m.provider, m.voiceIds) = <<>>
                    /\ voicesFromAPI' = NotNamed(voicesFromAPI, m.provider, m.voiceIds)
              /\ m.type = "unparsable" => voicesFromAPI' = voicesFromAPI]_vars

\* voice 1 of elevenlabs was removed from a list that keeps voice 1 of sarvam
C27_Witness ==
    /\ wsLast = [type |-> "voices.removed", provider |-> "elevenlabs", voiceIds |-> {1}]
    /\ voicesFromAPI = <<Voice("sarvam", 1)>>
    /\ wsCount = 2

\* C28: once a WebSocket message was applied, the answer to the initial
\* fetch, arriving later, does not change the list
C28_LateFetchKeepsUpdates ==
    [][(wsCount > 0 /\ voicesFetch = "pending" /\ voicesFetch' = "done")
          => voicesFromAPI' = voicesFromAPI]_vars

(***************************************************************************)
(* Properties of the voice preview (SpecPreview)                           *)
(***************************************************************************)
Playing == {r \in Requests : audio[r] = "playing"}

\* C29: at most one preview plays at a time, and playingPreviewVoiceId names
\* a voice only while a preview of that voice is being fetched or played
C29_OnePreviewAtATime ==
    clicks >= 0 =>
        /\ Cardinality(Playing) <= 1
        /\ playingPreviewVoiceId # 0 =>
              \E r \in Requests :
                  /\ previewReq[r].voice = playingPreviewVoiceId
                  /\ previewReq[r].state = "pending" \/ audio[r] = "playing"

(***************************************************************************)
(* Properties of the call form (SpecForm)                                  *)
(***************************************************************************)
\* the pieces of s between its hyphens
RECURSIVE Groups(_)
Groups(s) ==
    IF \A i \in 1 .. Len(s) : s[i] # "-" THEN <<s>>
    ELSE LET at == CHOOSE i \in 1 .. Len(s) :
                       s[i] = "-" /\ \A j \in 1 .. i - 1 : s[j] # "-"
         IN  <<SubSeq(s, 1, at - 1)>> \o Groups(SubSeq(s, at + 1, Len(s)))

\* UUID format: five hyphen-separated groups of 8, 4, 4, 4 and 12 hex digits
UuidFormat(s) ==
    /\ Len(Groups(s)) = 5
    /\ \A g \in 1 .. 5 :
          /\ Len(Groups(s)[g]) = <<8, 4, 4, 4, 12>>[g]
          /\ \A i \in 1 .. Len(Groups(s)[g]) : Groups(s)[g][i] \in HexDigits

\* E.164 as the form states it: an optional +, then 2 to 15 digits, the first not 0
E164Format(s) ==
    \E plus \in {0, 1} :
        /\ plus = 1 => (Len(s) >= 1 /\ s[1] = "+")
        /\ Len(s) - plus \in 2 .. 15
        /\ s[plus + 1] \in {"1", "2", "3", "4", "5", "6", "7", "8", "9"}
        /\ \A i \in plus + 2 .. Len(s) : s[i] \in Digits

EveryCheckPasses ==
    /\ user.loggedIn
    /\ UuidFormat(user.id)
    /\ \E i \in 1 .. Len(toNumber) : toNumber[i] \notin Whitespace
    /\ E164Format(toNumber)
    /\ selectedAgentId # <<>>
    /\ UuidFormat(selectedAgentId)

\* C30: onMakeCall is invoked only when the user is logged in with a UUID id,
\* the destination number is non-blank and E.164 and the selected agent id is
\* a UUID; a startCall with a failed check makes no call, leaves isCalling
\* false and leaves the form fields as they are; when the call attempt ends,
\* in success or in failure, isCalling is false again
C30_CallOnlyWhenEveryCheckPassed ==
    [][ /\ onMakeCall' # onMakeCall =>
              /\ EveryCheckPasses
              /\ onMakeCall' = Append(onMakeCall, [from |-> FromNumber, to |-> toNumber,
                                                   agentId |-> selectedAgentId])
        /\ (starts' # starts /\ ~EveryCheckPasses) =>
              /\ onMakeCall' = onMakeCall
              /\ ~isCalling /\ ~isCalling'
              /\ toNumber' = toNumber /\ selectedAgentId' = selectedAgentId
        /\ (callPc = "awaiting" /\ callPc' = "idle") => ~isCalling'
      ]_vars

C30_Witness ==
    /\ callPc = "idle"
    /\ Len(onMakeCall) = 1
    /\ starts = 2
    /\ ~isCalling
    /\ callStatus = <<"Please enter a phone number to call">>

(***************************************************************************)
(* Termination of a call (SpecLive)                                        *)
(***************************************************************************)
\* C16: a call that waits for its ffmpeg process does not wait for ever: the
\* process is terminated and the call settles, unless the Node process
\* itself was ended by an uncaught exception
C16_TranscodeSettles ==
    \A c \in Calls :
        (proc[c] = "running") ~>
            \/ proc[c] # "running" /\ promise[c].state \in {"resolved", "rejected"}
            \/ ~Alive

\* the promise of call c is settled
Settled(c) == promise[c].state \in {"resolved", "rejected"}

\* what the first 'close' or 'error' event of the child of call c decides
FirstEventOutcome(c) ==
    IF FirstEvent(c) = ErrorEvent THEN Rejected(ProcessErrorMessage)
    ELSE IF FirstEvent(c) = CloseEvent(0) THEN Resolved(FfmpegResult(emitted[c]))
    ELSE Rejected(ExitMessage(FirstEvent(c).code, stderrOutput[c]))

\* C26: on the ffmpeg path the promise settles at most once: a settled
\* promise never changes, its outcome is the one the first 'close' or 'error'
\* event decides, and once the child has emitted 'close' or 'error' the call
\* returns or fails
C26_SettlesOnceByFirstEvent ==
    /\ [][\A c \in Calls : Settled(c) => promise'[c] = promise[c]]_vars
    /\ [](\A c \in Calls :
            proc[c] # "none" =>
                /\ Settled(c) <=> procEvents[c] # <<>>
                /\ Settled(c) => promise[c] = FirstEventOutcome(c))
    /\ \A c \in Calls :
          (procEvents[c] # <<>>) ~> (pc[c] \in {"returned", "failed"})

\* 'error' came first and 'close' after it: the call failed with the message
\* of the 'error' handler
C26_Witness ==
    \E c \in Calls :
        /\ procEvents[c] = <<ErrorEvent, CloseEvent(1)>>
        /\ promise[c] = Rejected(ProcessErrorMessage)
        /\ pc[c] = "failed"

=============================================================================
